---- MODULE Spec2Model ----
(***************************************************************************)
(* Model of discord-presence's event registry (src/src/event_handler.rs): *)
(* HandlerRegistry, the EventCallbackHandle it hands out, and the threads  *)
(* that HandlerRegistry::handle spawns.                                    *)
(*                                                                         *)
(* Identities.  Every register call allocates one Arc<Handler> and one     *)
(* EventCallbackHandle; both are named by the same number (the order of    *)
(* allocation).  The handle keeps a Weak to the handler, so the allocation *)
(* is never reused while the handle exists and Arc::ptr_eq is equality of  *)
(* these numbers.                                                          *)
(*                                                                         *)
(* Threads.  A dispatcher thread calls handle(); an application thread and *)
(* the handler bodies register, drop, persist and remove.  The k-th thread *)
(* spawned by handle() is thread k.  op[p] is the registry call thread p   *)
(* is inside of.                                                           *)
(*                                                                         *)
(* Lock.  handlers is a parking_lot RwLock.  A write section (register,    *)
(* remove) touches nothing but the table, so acquiring, changing and       *)
(* releasing is one step, enabled when nobody reads; a thread whose op is  *)
(* "register" or "remove" is parked in write().  The read section of       *)
(* handle() spans several steps; readers is who holds the shared lock.     *)
(* parking_lot's read() does not overtake a parked writer.                 *)
(***************************************************************************)
EXTENDS Integers, Sequences, FiniteSets, TLC

\* Bounds of the model.
MaxHandlers == 3
MaxTasks == 2
MaxRemoveCalls == 2

Events == {"Ready", "Error"}
Data == {"d0"}
\* the thread that delivers decoded events, and the application's thread
Dispatchers == {101}
Apps == {102}
TaskIds == 1..MaxTasks
Procs == Dispatchers \cup Apps \cup TaskIds

NoEvent == "none"

VARIABLES
    alive,      \* the Arc<HandlerRegistry> still has an owner
    handlers,   \* HandlerRegistry.handlers: Event -> Vec<Arc<Handler>>, keys = DOMAIN
    handles,    \* EventCallbackHandle per registration, in allocation order: [event, state]
    tasks,      \* threads spawned by handle(), in spawn order: [handler, ctx,
                \* first (the first thread of the same dispatch), st]
    op,         \* per thread: the registry call it is executing
    readers,    \* threads holding the read lock
    held,       \* the Arc<Handler> a caller of remove keeps as its target, 0 for none
    removed,    \* handlers for which a remove has returned Ok
    last,       \* outcome of the most recently completed remove or handle drop
    ncalls,     \* direct calls of remove made so far
    cin,        \* codec: the argument of the Message function being applied
    cout        \* codec: what that function returned

vars == <<alive, handlers, handles, tasks, op, readers, held, removed, last, ncalls,
          cin, cout>>

Idle == [kind |-> "idle", event |-> NoEvent, target |-> 0, i |-> 0,
         data |-> "none", origin |-> "none", snap |-> <<>>, gone |-> {},
         launched |-> <<>>]

NoCall == [call |-> "none", res |-> "none", logged |-> FALSE]

----------------------------------------------------------------------------
\* Vec helpers

\* Iterator::position with Arc::ptr_eq: first index holding x, 0 for None
Position(s, x) ==
    IF \E i \in 1..Len(s) : s[i] = x
    THEN CHOOSE i \in 1..Len(s) : s[i] = x /\ \A j \in 1..(i - 1) : s[j] # x
    ELSE 0

\* mutant: Vec::swap_remove(index): the last element takes the freed slot
RemoveAt_swap(s, i) ==
    [j \in 1..(Len(s) - 1) |-> IF j = i THEN s[Len(s)] ELSE s[j]]

\* Vec::remove(index): delete one element, keep the order of the others
RemoveAt(s, i) == [j \in 1..(Len(s) - 1) |-> IF j < i THEN s[j] ELSE s[j + 1]]

Range(s) == {s[i] : i \in 1..Len(s)}

\* HashMap::get
Get(e) == IF e \in DOMAIN handlers THEN handlers[e] ELSE <<>>

InTable(x) == \E e \in DOMAIN handlers : x \in Range(handlers[e])

\* strong count of the handler allocation x is positive
HandlerAlive(x) ==
    \/ InTable(x)
    \/ x = held
    \/ \E k \in 1..Len(tasks) : tasks[k].handler = x /\ tasks[k].st \in {"spawned", "running"}
    \/ \E p \in Procs : op[p].kind = "remove" /\ op[p].target = x

WriterParked == \E p \in Procs : op[p].kind \in {"register", "remove"}

\* a thread that may call into the registry: an application thread, or a
\* running handler body
CanCall(p) ==
    /\ op[p].kind = "idle"
    /\ p \in TaskIds => (p <= Len(tasks) /\ tasks[p].st = "running")

\* HandlerRegistry::new
RegistryInit ==
    /\ alive = TRUE
    /\ handlers = <<>>
    /\ handles = <<>>
    /\ tasks = <<>>
    /\ op = [p \in Procs |-> Idle]
    /\ readers = {}
    /\ held = 0
    /\ removed = {}
    /\ last = NoCall
    /\ ncalls = 0

\* a registry, and no codec call under way
Init ==
    /\ RegistryInit
    /\ cin = [kind |-> "none"]
    /\ cout = [res |-> "none"]

----------------------------------------------------------------------------
\* HandlerRegistry::register

\* mutant: the list is replaced (insert(event, vec![handler])) instead of extended
Pushed_replace(e, x) ==
    [k \in DOMAIN handlers \cup {e} |-> IF k = e THEN <<x>> ELSE handlers[k]]

\* mutant: the Arc is pushed twice
Pushed_twice(e, x) ==
    [k \in DOMAIN handlers \cup {e} |->
        IF k = e THEN Append(Append(Get(e), x), x) ELSE handlers[k]]

\* event_handlers.entry(event).or_default().push(handler)
Pushed(e, x) ==
    [k \in DOMAIN handlers \cup {e} |->
        IF k = e THEN Append(Get(e), x) ELSE handlers[k]]

\* lines 75-80: allocate the handler and build the handle, then park in write()
RegisterBegin(p, e) ==
    /\ CanCall(p)
    /\ p \notin Dispatchers
    /\ alive
    /\ Len(handles) < MaxHandlers
    /\ handles' = Append(handles, [event |-> e, state |-> "pending"])
    /\ op' = [op EXCEPT ![p] = [Idle EXCEPT !.kind = "register", !.event = e,
                                            !.target = Len(handles) + 1]]
    /\ UNCHANGED <<cin, cout, alive, handlers, tasks, readers, held, removed, last, ncalls>>

\* mutant: register extends the list without waiting for the readers to leave
RegisterInsert_unlocked(p) ==
    /\ op[p].kind = "register"
    /\ handlers' = Pushed(op[p].event, op[p].target)
    /\ handles' = [handles EXCEPT ![op[p].target].state = "held"]
    /\ op' = [op EXCEPT ![p] = Idle]
    /\ UNCHANGED <<cin, cout, alive, tasks, readers, held, removed, last, ncalls>>

\* lines 82-86: the write section, and the handle is returned to the caller
RegisterInsert(p) ==
    /\ op[p].kind = "register"
    /\ readers = {}
    /\ handlers' = Pushed(op[p].event, op[p].target)
    /\ handles' = [handles EXCEPT ![op[p].target].state = "held"]
    /\ op' = [op EXCEPT ![p] = Idle]
    /\ UNCHANGED <<cin, cout, alive, tasks, readers, held, removed, last, ncalls>>

----------------------------------------------------------------------------
\* HandlerRegistry::remove and the handle's destructor

\* mutant: the destructor unwraps the result of remove
DropOutcome_unwrap(res) ==
    [call |-> "drop", res |-> IF res = "NoChangesMade" THEN "panic" ELSE "unit",
     logged |-> FALSE]

\* what the destructor makes of remove's result: the error is logged, never
\* returned, and nothing panics
DropOutcome(res) ==
    [call |-> "drop", res |-> "unit", logged |-> (res = "NoChangesMade")]

\* mutant: handlers compared by what they do, not by allocation: any handler
\* of the event matches
RemoveIndex_any(e, x) ==
    IF e \in DOMAIN handlers /\ Len(handlers[e]) > 0 THEN 1 ELSE 0

\* index of the entry remove() deletes, 0 when it finds none
RemoveIndex(e, x) ==
    IF e \in DOMAIN handlers THEN Position(handlers[e], x) ELSE 0

\* mutant: the event's whole list is dropped with the handler
Removed_clear(e, x) ==
    IF RemoveIndex(e, x) > 0 THEN [handlers EXCEPT ![e] = <<>>] ELSE handlers

\* mutant: an event whose list becomes empty loses its key
Removed_prune(e, x) ==
    IF RemoveIndex(e, x) > 0
    THEN IF Len(handlers[e]) = 1
         THEN [k \in DOMAIN handlers \ {e} |-> handlers[k]]
         ELSE [handlers EXCEPT ![e] = RemoveAt(@, RemoveIndex(e, x))]
    ELSE handlers

\* the table after remove(e, x)
Removed(e, x) ==
    IF RemoveIndex(e, x) > 0
    THEN [handlers EXCEPT ![e] = RemoveAt(@, RemoveIndex(e, x))]
    ELSE handlers

\* Drop for EventCallbackHandle, lines 49-51: the handle is consumed; with the
\* registry and the handler both still alive it goes on to registry.remove
DropHandle(p, h) ==
    /\ CanCall(p)
    /\ p \notin Dispatchers
    /\ h \in 1..Len(handles)
    /\ handles[h].state = "held"
    /\ handles' = [handles EXCEPT ![h].state = "dropped"]
    /\ IF alive /\ HandlerAlive(h)
       THEN /\ op' = [op EXCEPT ![p] = [Idle EXCEPT !.kind = "remove",
                                          !.event = handles[h].event,
                                          !.target = h, !.origin = "drop"]]
            /\ last' = last
       ELSE /\ op' = op
            /\ last' = DropOutcome("skipped")
    /\ UNCHANGED <<cin, cout, alive, handlers, tasks, readers, held, removed, ncalls>>

\* EventCallbackHandle::remove is drop(self)
HandleRemove(p, h) == DropHandle(p, h)

\* mutant: the handle is marked persisted but its destructor still runs
Persist_drops(p, h) ==
    /\ CanCall(p)
    /\ p \notin Dispatchers
    /\ h \in 1..Len(handles)
    /\ handles[h].state = "held"
    /\ alive
    /\ handles' = [handles EXCEPT ![h].state = "persisted"]
    /\ op' = [op EXCEPT ![p] = [Idle EXCEPT !.kind = "remove",
                                            !.event = handles[h].event,
                                            !.target = h, !.origin = "drop"]]
    /\ UNCHANGED <<cin, cout, alive, handlers, tasks, readers, held, removed, last, ncalls>>

\* EventCallbackHandle::persist: mem::forget, the destructor never runs
Persist(p, h) ==
    /\ CanCall(p)
    /\ p \notin Dispatchers
    /\ h \in 1..Len(handles)
    /\ handles[h].state = "held"
    /\ handles' = [handles EXCEPT ![h].state = "persisted"]
    /\ UNCHANGED <<cin, cout, alive, handlers, tasks, op, readers, held, removed, last, ncalls>>

\* a crate-internal caller of HandlerRegistry::remove(event, &target): the
\* target is the Arc<Handler> it kept from an earlier call, or one it gets by
\* upgrading the Weak of a handle it holds; the call parks in write()
RemoveCall(p, e, x) ==
    /\ CanCall(p)
    /\ p \in Apps
    /\ alive
    /\ ncalls < MaxRemoveCalls
    /\ x \in 1..Len(handles)
    /\ IF held # 0 THEN x = held
       ELSE handles[x].state = "held" /\ HandlerAlive(x)
    /\ held' = x
    /\ ncalls' = ncalls + 1
    /\ op' = [op EXCEPT ![p] = [Idle EXCEPT !.kind = "remove", !.event = e,
                                            !.target = x, !.origin = "direct"]]
    /\ UNCHANGED <<cin, cout, alive, handlers, handles, tasks, readers, removed, last>>

\* mutant: remove changes the list without waiting for the readers to leave
RemoveApply_unlocked(p) ==
    /\ op[p].kind = "remove"
    /\ LET e == op[p].event
           x == op[p].target
           res == IF RemoveIndex(e, x) > 0 THEN "Ok" ELSE "NoChangesMade"
       IN /\ handlers' = Removed(e, x)
          /\ removed' = IF res = "Ok" THEN removed \cup {x} ELSE removed
          /\ last' = IF op[p].origin = "drop"
                     THEN DropOutcome(res)
                     ELSE [call |-> "remove", res |-> res, logged |-> FALSE]
    /\ op' = [op EXCEPT ![p] = Idle]
    /\ UNCHANGED <<cin, cout, alive, handles, tasks, readers, held, ncalls>>

\* lines 115-125: the write section of remove, and its return
RemoveApply(p) ==
    /\ op[p].kind = "remove"
    /\ readers = {}
    /\ LET e == op[p].event
           x == op[p].target
           res == IF RemoveIndex(e, x) > 0 THEN "Ok" ELSE "NoChangesMade"
       IN /\ handlers' = Removed(e, x)
          /\ removed' = IF res = "Ok" THEN removed \cup {x} ELSE removed
          /\ last' = IF op[p].origin = "drop"
                     THEN DropOutcome(res)
                     ELSE [call |-> "remove", res |-> res, logged |-> FALSE]
    /\ op' = [op EXCEPT ![p] = Idle]
    /\ UNCHANGED <<cin, cout, alive, handles, tasks, readers, held, ncalls>>

\* the caller lets go of the Arc<Handler> it kept
ReleaseTarget ==
    /\ held # 0
    /\ \A p \in Procs : ~(op[p].kind = "remove" /\ op[p].origin = "direct")
    /\ held' = 0
    /\ UNCHANGED <<cin, cout, alive, handlers, handles, tasks, op, readers, removed, last, ncalls>>

----------------------------------------------------------------------------
\* HandlerRegistry::handle

RECURSIVE SumOver(_, _)
SumOver(S, f) ==
    IF S = {} THEN 0
    ELSE LET p == CHOOSE q \in S : TRUE IN f[p] + SumOver(S \ {p}, f)

\* threads the dispatches in progress have yet to spawn
Pending ==
    SumOver(readers, [p \in readers |-> Len(Get(op[p].event)) - (op[p].i - 1)])

\* mutant: the lookup is entry(event).or_default() under a write lock
DispatchBegin_entry(p, e, d) ==
    /\ CanCall(p)
    /\ p \in Dispatchers
    /\ alive
    /\ ~WriterParked
    /\ Len(tasks) + Pending + Len(Get(e)) <= MaxTasks
    /\ readers' = readers \cup {p}
    /\ handlers' = [k \in DOMAIN handlers \cup {e} |-> Get(k)]
    /\ op' = [op EXCEPT ![p] = [Idle EXCEPT !.kind = "handle", !.event = e,
                                            !.data = d, !.i = 1,
                                            !.snap = Get(e), !.gone = removed]]
    /\ UNCHANGED <<cin, cout, alive, handles, tasks, held, removed, last, ncalls>>

\* line 91: handlers.read(); the guard lives until the function returns
DispatchBegin(p, e, d) ==
    /\ CanCall(p)
    /\ p \in Dispatchers
    /\ alive
    /\ ~WriterParked
    /\ Len(tasks) + Pending + Len(Get(e)) <= MaxTasks
    /\ readers' = readers \cup {p}
    /\ op' = [op EXCEPT ![p] = [Idle EXCEPT !.kind = "handle", !.event = e,
                                            !.data = d, !.i = 1,
                                            !.snap = Get(e), !.gone = removed]]
    /\ UNCHANGED <<cin, cout, alive, handlers, handles, tasks, held, removed, last, ncalls>>

\* the loop has another handler to launch
MoreToLaunch(p) ==
    /\ op[p].event \in DOMAIN handlers
    /\ op[p].i <= Len(handlers[op[p].event])

\* lines 95-101: one iteration: clone the Arc and the context, thread::spawn
DispatchSpawn(p) ==
    /\ op[p].kind = "handle"
    /\ MoreToLaunch(p)
    /\ LET x == handlers[op[p].event][op[p].i]
       IN /\ tasks' = Append(tasks, [handler |-> x, ctx |-> op[p].data,
                                      first |-> Len(tasks) + 1 - Len(op[p].launched),
                                      st |-> "spawned"])
          /\ op' = [op EXCEPT ![p].i = @ + 1, ![p].launched = Append(@, x)]
    /\ UNCHANGED <<cin, cout, alive, handlers, handles, readers, held, removed, last, ncalls>>

\* mutant: the read guard is leaked instead of dropped
DispatchReturn_leak(p) ==
    /\ op[p].kind = "handle"
    /\ ~MoreToLaunch(p)
    /\ op' = [op EXCEPT ![p] = Idle]
    /\ UNCHANGED <<cin, cout, alive, handlers, handles, tasks, readers, held, removed, last, ncalls>>

\* mutant: handle() joins the threads it spawned before it returns
DispatchReturn_join(p) ==
    /\ op[p].kind = "handle"
    /\ ~MoreToLaunch(p)
    /\ \A k \in 1..Len(tasks) : tasks[k].st \in {"done", "panicked"}
    /\ readers' = readers \ {p}
    /\ op' = [op EXCEPT ![p] = Idle]
    /\ UNCHANGED <<cin, cout, alive, handlers, handles, tasks, held, removed, last, ncalls>>

\* line 103: the loop is over (or there was no list); the read guard drops
DispatchReturn(p) ==
    /\ op[p].kind = "handle"
    /\ ~MoreToLaunch(p)
    /\ readers' = readers \ {p}
    /\ op' = [op EXCEPT ![p] = Idle]
    /\ UNCHANGED <<cin, cout, alive, handlers, handles, tasks, held, removed, last, ncalls>>

----------------------------------------------------------------------------
\* the spawned threads: move || { handler(context); }

TaskStart(k) ==
    /\ k \in 1..Len(tasks)
    /\ tasks[k].st = "spawned"
    /\ tasks' = [tasks EXCEPT ![k].st = "running"]
    /\ UNCHANGED <<cin, cout, alive, handlers, handles, op, readers, held, removed, last, ncalls>>

\* the handler body returns; the thread ends and drops its Arc clone
TaskReturn(k) ==
    /\ k \in 1..Len(tasks)
    /\ tasks[k].st = "running"
    /\ op[k].kind = "idle"
    /\ tasks' = [tasks EXCEPT ![k].st = "done"]
    /\ UNCHANGED <<cin, cout, alive, handlers, handles, op, readers, held, removed, last, ncalls>>

\* mutant: the panic takes the other handler threads down with it
TaskPanic_abort(k) ==
    /\ k \in 1..Len(tasks)
    /\ tasks[k].st = "running"
    /\ op[k].kind = "idle"
    /\ tasks' = [j \in 1..Len(tasks) |->
                    IF tasks[j].st \in {"spawned", "running"}
                    THEN [tasks[j] EXCEPT !.st = "panicked"] ELSE tasks[j]]
    /\ UNCHANGED <<cin, cout, alive, handlers, handles, op, readers, held, removed, last, ncalls>>

\* the handler body panics; only its own thread unwinds
TaskPanic(k) ==
    /\ k \in 1..Len(tasks)
    /\ tasks[k].st = "running"
    /\ op[k].kind = "idle"
    /\ tasks' = [tasks EXCEPT ![k].st = "panicked"]
    /\ UNCHANGED <<cin, cout, alive, handlers, handles, op, readers, held, removed, last, ncalls>>

----------------------------------------------------------------------------
\* the last Arc<HandlerRegistry> goes away: the table and its Arcs are freed.
\* Every call borrows the Arc, so no call is in progress.
DropRegistry ==
    /\ alive
    /\ \A p \in Procs : op[p].kind = "idle"
    /\ alive' = FALSE
    /\ handlers' = <<>>
    /\ UNCHANGED <<cin, cout, handles, tasks, op, readers, held, removed, last, ncalls>>

\* The program as shipped: the destructor is the one caller of remove.
Next ==
    \/ \E p \in Procs, e \in Events : RegisterBegin(p, e)
    \/ \E p \in Procs : RegisterInsert(p)
    \/ \E p \in Procs, h \in 1..MaxHandlers : DropHandle(p, h)
    \/ \E p \in Procs, h \in 1..MaxHandlers : HandleRemove(p, h)
    \/ \E p \in Procs, h \in 1..MaxHandlers : Persist(p, h)
    \/ \E p \in Procs : RemoveApply(p)
    \/ \E p \in Procs, e \in Events, d \in Data : DispatchBegin(p, e, d)
    \/ \E p \in Procs : DispatchSpawn(p)
    \/ \E p \in Procs : DispatchReturn(p)
    \/ \E k \in TaskIds : TaskStart(k)
    \/ \E k \in TaskIds : TaskReturn(k)
    \/ \E k \in TaskIds : TaskPanic(k)
    \/ DropRegistry

Spec == Init /\ [][Next]_vars

\* Scheduling: a thread that can take its next step inside a registry call
\* takes it, and a spawned thread is started.  parking_lot hands the lock to
\* parked writers before new readers, so a parked writer's step stays enabled
\* once the readers are gone.  Nothing makes a handler body return.
Fairness ==
    /\ \A p \in Procs : WF_vars(DispatchSpawn(p))
    /\ \A p \in Procs : WF_vars(DispatchReturn(p))
    /\ \A p \in Procs : WF_vars(RegisterInsert(p))
    /\ \A p \in Procs : WF_vars(RemoveApply(p))
    /\ \A k \in TaskIds : WF_vars(TaskStart(k))

FairSpec == Spec /\ Fairness

\* The registry with a crate-internal caller of remove beside the handles.
NextRemove ==
    \/ \E p \in Apps, e \in Events : RegisterBegin(p, e)
    \/ \E p \in Apps : RegisterInsert(p)
    \/ \E p \in Apps, h \in 1..MaxHandlers : DropHandle(p, h)
    \/ \E p \in Apps, h \in 1..MaxHandlers : Persist(p, h)
    \/ \E p \in Apps, e \in Events, x \in 1..MaxHandlers : RemoveCall(p, e, x)
    \/ \E p \in Apps : RemoveApply(p)
    \/ ReleaseTarget
    \/ DropRegistry

RemoveSpec == Init /\ [][NextRemove]_vars

----------------------------------------------------------------------------
(***************************************************************************)
(* The wire codec (src/src/models/message.rs).                             *)
(*                                                                         *)
(* Numbers.  A u32 is [hi, lo], its two 16-bit halves; a usize (64 bits)   *)
(* is the numeral <<d3, d2, d1, d0>> in base 65536, most significant       *)
(* first.  Bytes are numbers 0..255.                                       *)
(*                                                                         *)
(* Strings and buffers.  [bytes, fill] is the listed bytes followed by     *)
(* fill more bytes 'a' (fill a usize), so that a payload of 2^32 bytes can *)
(* be written down.  A String holds valid UTF-8.                           *)
(***************************************************************************)

\* Bound of the model: listed payload bytes of an input.
MaxPayload == 2

\* enum OpCode, in declaration order: the ordinal is the index minus one
OpCodes == <<"Handshake", "Frame", "Close", "Ping", "Pong">>

NoOpCode == "none"

\* self.opcode as u32
OpCodeAsU32(o) ==
    [hi |-> 0, lo |-> (CHOOSE i \in 1..Len(OpCodes) : OpCodes[i] = o) - 1]

\* mutant: one more ordinal is let through, as the variant before it
FromU32_lax(v) ==
    IF v.hi = 0 /\ v.lo < Len(OpCodes) THEN OpCodes[v.lo + 1]
    ELSE IF v.hi = 0 /\ v.lo = Len(OpCodes) THEN OpCodes[Len(OpCodes)]
    ELSE NoOpCode

\* OpCode::from_u32 (derive FromPrimitive): None outside the enum
FromU32(v) ==
    IF v.hi = 0 /\ v.lo < Len(OpCodes) THEN OpCodes[v.lo + 1] ELSE NoOpCode

ZeroUSize == <<0, 0, 0, 0>>

\* a length small enough to count, as a usize
USize(n) == <<0, 0, n \div 65536, n % 65536>>

\* mutant: the length is cast (as u32), the high half silently dropped
TryFromUSize_cast(n) == [ok |-> TRUE, val |-> [hi |-> n[3], lo |-> n[4]]]

\* u32::try_from(usize)
TryFromUSize(n) ==
    IF n[1] = 0 /\ n[2] = 0
    THEN [ok |-> TRUE, val |-> [hi |-> n[3], lo |-> n[4]]]
    ELSE [ok |-> FALSE, val |-> [hi |-> 0, lo |-> 0]]

\* mutant: the integer is written big-endian
WriteU32_be(v) == <<v.hi \div 256, v.hi % 256, v.lo \div 256, v.lo % 256>>

\* write_u32::<LittleEndian>
WriteU32(v) == <<v.lo % 256, v.lo \div 256, v.hi % 256, v.hi \div 256>>

\* read_u32::<LittleEndian> of the four bytes b[i..i+3]
ReadU32(b, i) ==
    [hi |-> b[i + 2] + 256 * b[i + 3], lo |-> b[i] + 256 * b[i + 1]]

\* str::from_utf8 accepts s from index i on.  One- and two-byte forms; the
\* inputs hold no lead byte of a longer form.
RECURSIVE Utf8From(_, _)
Utf8From(s, i) ==
    IF i > Len(s) THEN TRUE
    ELSE IF s[i] < 128 THEN Utf8From(s, i + 1)
    ELSE IF /\ s[i] \in 194..223
            /\ i + 1 <= Len(s)
            /\ s[i + 1] \in 128..191
         THEN Utf8From(s, i + 2)
    ELSE FALSE

Utf8Valid(s) == Utf8From(s, 1)

\* String::len / <[u8]>::len of [bytes, fill]
ByteLen(t) == IF t.fill = ZeroUSize THEN USize(Len(t.bytes)) ELSE t.fill

EmptyStr == [bytes |-> <<>>, fill |-> ZeroUSize]

NoMsg == [opcode |-> NoOpCode, payload |-> EmptyStr]

\* crate::Result of the three functions
Pending0 == [res |-> "none", err |-> "none", msg |-> NoMsg, out |-> EmptyStr]
OkMsg(m) == [res |-> "Ok", err |-> "none", msg |-> m, out |-> EmptyStr]
OkBytes(b) == [res |-> "Ok", err |-> "none", msg |-> NoMsg, out |-> b]
Err(e) == [res |-> "Err", err |-> e, msg |-> NoMsg, out |-> EmptyStr]
Panic == [res |-> "panic", err |-> "none", msg |-> NoMsg, out |-> EmptyStr]

\* Message::new: value is what serde_json::to_string makes of the payload,
\* [ser, text]
MessageNew(o, value) ==
    IF value.ser THEN OkMsg([opcode |-> o, payload |-> value.text])
    ELSE Err("Serialization")

\* Message::encode
Encode(m) ==
    LET payload_length == TryFromUSize(ByteLen(m.payload))
    IN IF ~payload_length.ok THEN Panic
       ELSE OkBytes([bytes |-> WriteU32(OpCodeAsU32(m.opcode))
                                \o WriteU32(payload_length.val)
                                \o m.payload.bytes,
                     fill |-> m.payload.fill])

\* Message::decode.  len is read and used as the String's capacity only;
\* read_to_string takes every byte that is left.
Decode(b) ==
    IF Len(b.bytes) < 4 THEN Err("Io")
    ELSE IF FromU32(ReadU32(b.bytes, 1)) = NoOpCode THEN Err("Conversion")
    ELSE IF Len(b.bytes) < 8 THEN Err("Io")
    ELSE LET rest == SubSeq(b.bytes, 9, Len(b.bytes))
         IN IF ~Utf8Valid(rest) THEN Err("Io")
            ELSE OkMsg([opcode |-> FromU32(ReadU32(b.bytes, 1)),
                        payload |-> [bytes |-> rest, fill |-> b.fill]])

\* Inputs

\* 'a', and the two bytes of U+00E9
PayloadBytes == {97, 195, 169}

RECURSIVE SeqsUpTo(_, _)
SeqsUpTo(S, n) ==
    IF n = 0 THEN {<<>>}
    ELSE LET shorter == SeqsUpTo(S, n - 1)
         IN shorter \cup {Append(t, x) : t \in shorter, x \in S}

Bodies == SeqsUpTo(PayloadBytes, MaxPayload)

\* payload lengths around the 32-bit limit: 2^32 - 1, 2^32, 2^32 + 1
LongLengths == {<<0, 0, 65535, 65535>>, <<0, 1, 0, 0>>, <<0, 1, 0, 1>>}

\* what serde_json::to_string can give: a text, short or long, or an error
Values ==
    {[ser |-> TRUE, text |-> [bytes |-> t, fill |-> ZeroUSize]] :
        t \in {u \in Bodies : Utf8Valid(u)}}
    \cup {[ser |-> TRUE, text |-> [bytes |-> <<>>, fill |-> n]] : n \in LongLengths}
    \cup {[ser |-> FALSE, text |-> EmptyStr]}

\* opcode words of a frame: the ordinals 0..6, and words whose higher bytes
\* are set
OpWords ==
    {[hi |-> 0, lo |-> n] : n \in 0..6}
    \cup {[hi |-> 0, lo |-> 256], [hi |-> 1, lo |-> 0], [hi |-> 256, lo |-> 4]}

\* a frame whose length field declares d bytes, with any body
Frames ==
    {WriteU32(w) \o WriteU32([hi |-> 0, lo |-> d]) \o body :
        w \in OpWords, d \in 0..(MaxPayload + 1), body \in Bodies}

\* what the transport may hand to decode: a frame, or a frame cut short
Buffers ==
    UNION {{[bytes |-> SubSeq(f, 1, t), fill |-> ZeroUSize] : t \in 0..Len(f)} :
              f \in Frames}

NoValue == [ser |-> FALSE, text |-> EmptyStr]

ValueInput(o, v) ==
    [kind |-> "value", opcode |-> o, value |-> v, msg |-> NoMsg,
     bytes |-> EmptyStr, sent |-> NoMsg]
MsgInput(m) ==
    [kind |-> "msg", opcode |-> NoOpCode, value |-> NoValue, msg |-> m,
     bytes |-> EmptyStr, sent |-> NoMsg]
BytesInput(b, m) ==
    [kind |-> "bytes", opcode |-> NoOpCode, value |-> NoValue, msg |-> NoMsg,
     bytes |-> b, sent |-> m]

CodecInit ==
    /\ RegistryInit
    /\ cout = Pending0
    /\ cin \in {ValueInput(OpCodes[i], v) : i \in 1..Len(OpCodes), v \in Values}
               \cup {BytesInput(b, NoMsg) : b \in Buffers}

registry == <<alive, handlers, handles, tasks, op, readers, held, removed, last, ncalls>>

\* Message::new(opcode, payload)
CodecNew ==
    /\ cin.kind = "value"
    /\ cout.res = "none"
    /\ cout' = MessageNew(cin.opcode, cin.value)
    /\ UNCHANGED <<cin, registry>>

\* msg.encode()
CodecEncode ==
    /\ cin.kind = "msg"
    /\ cout.res = "none"
    /\ cout' = Encode(cin.msg)
    /\ UNCHANGED <<cin, registry>>

\* Message::decode(&bytes)
CodecDecode ==
    /\ cin.kind = "bytes"
    /\ cout.res = "none"
    /\ cout' = Decode(cin.bytes)
    /\ UNCHANGED <<cin, registry>>

\* the message just built is the one to encode
PassMessage ==
    /\ cin.kind = "value"
    /\ cout.res = "Ok"
    /\ cin' = MsgInput(cout.msg)
    /\ cout' = Pending0
    /\ UNCHANGED registry

\* the bytes just encoded are the ones to decode
PassBytes ==
    /\ cin.kind = "msg"
    /\ cout.res = "Ok"
    /\ cin' = BytesInput(cout.out, cin.msg)
    /\ cout' = Pending0
    /\ UNCHANGED registry

NextCodec ==
    \/ CodecNew
    \/ CodecEncode
    \/ CodecDecode
    \/ PassMessage
    \/ PassBytes

CodecSpec == CodecInit /\ [][NextCodec]_vars

----------------------------------------------------------------------------
\* Properties

\* s without the elements equal to x, order kept
Without(s, x) == SelectSeq(s, LAMBDA y : y # x)

\* number of entries of the event's list that hold x
Count(e, x) == Cardinality({i \in 1..Len(Get(e)) : Get(e)[i] = x})

\* thread p completes a remove that its handle's destructor started
DropRemoves(p) ==
    op[p].kind = "remove" /\ op[p].origin = "drop" /\ op'[p].kind = "idle"

\* C1: when the destructor of a held handle runs while the registry is alive,
\* it goes on to remove, and that remove deletes exactly the entry of the
\* handle's own registration: the handler was in the list of the handle's
\* event, that list afterwards is the same list without it (one entry
\* shorter, the siblings in place), and the key set and every other event's
\* list are unchanged.
C1_DropRemovesOwnEntry ==
    [][ /\ \A p \in Procs, h \in 1..Len(handles) :
             (handles[h].state = "held" /\ handles'[h].state = "dropped" /\ alive
              /\ op[p] # op'[p])
             => /\ op'[p].kind = "remove" /\ op'[p].target = h
                /\ op'[p].event = handles[h].event
                /\ handlers' = handlers
        /\ \A p \in Procs :
             DropRemoves(p) =>
               LET e == op[p].event
                   x == op[p].target
               IN /\ e = handles[x].event
                  /\ Count(e, x) = 1
                  /\ DOMAIN handlers' = DOMAIN handlers
                  /\ handlers'[e] = Without(handlers[e], x)
                  /\ Len(handlers'[e]) = Len(handlers[e]) - 1
                  /\ \A f \in DOMAIN handlers \ {e} : handlers'[f] = handlers[f]
      ]_vars

\* C1 witness: a handle was dropped and its handler removed, while a sibling
\* of the same event and a handler of the other event are still registered
C1_Witness ==
    /\ alive
    /\ \E x \in removed :
         /\ handles[x].state = "dropped"
         /\ ~InTable(x)
         /\ Len(Get(handles[x].event)) = 1
         /\ \E f \in DOMAIN handlers : f # handles[x].event /\ Len(handlers[f]) = 1

\* C2: a persisted handle stays persisted, and while the registry exists its
\* handler is in the list of its event (exactly once) in every later state.
C2_PersistedStays ==
    [][ \A h \in 1..Len(handles') :
          /\ (h <= Len(handles) /\ handles[h].state = "persisted")
                => handles'[h].state = "persisted"
          /\ (handles'[h].state = "persisted" /\ alive')
                => Cardinality({i \in 1..Len(handlers'[handles'[h].event]) :
                                 handlers'[handles'[h].event][i] = h}) = 1
      ]_vars

\* C2 witness: a persisted handler is registered while another handle of the
\* same event has been dropped and a dispatch of the event has launched it
C2_Witness ==
    /\ alive
    /\ \E h \in 1..Len(handles) :
         /\ handles[h].state = "persisted"
         /\ InTable(h)
         /\ \E g \in removed : handles[g].event = handles[h].event
         /\ \E k \in 1..Len(tasks) : tasks[k].handler = h

\* handles whose register call has returned, for event e
Registered(e) ==
    {h \in 1..Len(handles) : handles[h].event = e /\ handles[h].state # "pending"}

NothingDropped ==
    /\ alive
    /\ \A h \in 1..Len(handles) : handles[h].state # "dropped"

\* thread p completes a register call
Registers(p) == op[p].kind = "register" /\ op'[p].kind = "idle"

\* C3: as long as no handle has been dropped or removed, the table's keys are
\* exactly the events registered so far and each list is as long as the
\* number of register calls made for its event; and a register call changes
\* no list but its own event's.
C3_RegistrationCount ==
    /\ [](NothingDropped =>
            /\ DOMAIN handlers = {e \in Events : Registered(e) # {}}
            /\ \A e \in DOMAIN handlers :
                 Len(handlers[e]) = Cardinality(Registered(e)))
    /\ [][ \A p \in Procs :
             Registers(p) =>
               \A f \in DOMAIN handlers \ {op[p].event} :
                  f \in DOMAIN handlers' /\ handlers'[f] = handlers[f] ]_vars

\* C3 witness: two handlers for Ready and one for Error, none dropped
C3_Witness ==
    /\ NothingDropped
    /\ DOMAIN handlers = {"Ready", "Error"}
    /\ Len(handlers["Ready"]) = 2
    /\ Len(handlers["Error"]) = 1

\* thread p completes a direct call of remove
DirectRemoves(p) ==
    op[p].kind = "remove" /\ op[p].origin = "direct" /\ op'[p].kind = "idle"

\* C4: a call remove(event, handler) for a handler that is in the event's
\* list returns Ok and takes it out; a call for a handler that an earlier
\* remove has already returned Ok for returns NoChangesMade and leaves the
\* whole table as it was.
C4_RemoveTwice ==
    [][ \A p \in Procs :
          DirectRemoves(p) =>
            LET e == op[p].event
                x == op[p].target
            IN /\ Count(e, x) > 0 =>
                    /\ last' = [call |-> "remove", res |-> "Ok", logged |-> FALSE]
                    /\ x \notin removed /\ x \in removed'
                    /\ handlers'[e] = Without(handlers[e], x)
               /\ x \in removed =>
                    /\ last' = [call |-> "remove", res |-> "NoChangesMade",
                                logged |-> FALSE]
                    /\ handlers' = handlers
      ]_vars

\* C4 witness: the second of two direct calls for the same handler has
\* returned NoChangesMade, the first having removed it from beside a sibling
C4_Witness ==
    /\ ncalls = 2
    /\ last = [call |-> "remove", res |-> "NoChangesMade", logged |-> FALSE]
    /\ held # 0
    /\ held \in removed
    /\ handles[held].state = "held"
    /\ Len(Get(handles[held].event)) > 0

\* C5: a removal cancels nothing that is in flight: no spawned thread
\* disappears or is stopped before it runs, and a dispatch returns only after
\* launching every handler of the list it found (no removal gets in between);
\* and a dispatch that began after a handler's removal had returned never
\* launches that handler.
C5_RemovalVersusDispatch ==
    /\ [][ /\ Len(tasks') >= Len(tasks)
           /\ \A k \in 1..Len(tasks) :
                /\ tasks'[k].handler = tasks[k].handler
                /\ tasks[k].st = "spawned" => tasks'[k].st \in {"spawned", "running"}
                /\ tasks[k].st = "running" => tasks'[k].st # "spawned"
           /\ \A p \in Procs :
                (op[p].kind = "handle" /\ op'[p].kind = "handle")
                    => /\ Get(op[p].event)' = op[p].snap
                       /\ op'[p].snap = op[p].snap
           /\ \A p \in Procs :
                (op[p].kind = "handle" /\ op'[p].kind = "idle")
                    => op[p].launched = op[p].snap
         ]_vars
    /\ [](\A p \in Procs :
            op[p].kind = "handle" =>
                \A i \in 1..Len(op[p].launched) : op[p].launched[i] \notin op[p].gone)

\* C5 witness: a handler's thread is still running after the handler was
\* removed, and a later dispatch of the same event launched only its sibling
C5_Witness ==
    \E k \in 1..Len(tasks), p \in Dispatchers :
        /\ tasks[k].st = "running"
        /\ tasks[k].handler \in removed
        /\ op[p].kind = "handle"
        /\ tasks[k].handler \in op[p].gone
        /\ op[p].event = handles[tasks[k].handler].event
        /\ Len(op[p].launched) = 1

\* thread p finishes dropping a handle (with or without a call of remove)
DropEnds(p, h) ==
    \/ /\ handles[h].state = "held" /\ handles'[h].state = "dropped"
       /\ op[p].kind = "idle" /\ op' = op
       /\ CanCall(p)
    \/ DropRemoves(p) /\ op[p].target = h

\* C8: dropping a handle whose registry is gone, or whose handler is no
\* longer in the table, changes no table state; and every drop returns
\* normally: the result of remove, NoChangesMade included, is at most logged.
C8_DropIsSilent ==
    [][ \A p \in Procs, h \in 1..Len(handles) :
          /\ (handles[h].state = "held" /\ handles'[h].state = "dropped"
              /\ (~alive \/ ~InTable(h)))
                => handlers' = handlers
          /\ DropEnds(p, h) =>
                /\ last'.call = "drop" /\ last'.res = "unit"
                /\ (~alive \/ ~InTable(h)) =>
                      /\ handlers' = handlers
                      /\ removed' = removed
                      /\ last'.logged = (alive /\ HandlerAlive(h))
      ]_vars

\* C8 witness: a handle was dropped after its handler had been removed by a
\* direct call; remove answered NoChangesMade, which was logged and swallowed
C8_Witness ==
    /\ alive
    /\ last = [call |-> "drop", res |-> "unit", logged |-> TRUE]
    /\ \E h \in removed : handles[h].state = "dropped"

\* C9: no step of a dispatch changes the table or the handles; and a dispatch
\* that finds no handler for its event (no key, or an empty list) launches
\* nothing: its next step is its return.
C9_DispatchChangesNothing ==
    [][ \A p \in Procs :
          ((op[p].kind = "handle" \/ op'[p].kind = "handle") /\ op'[p] # op[p])
            => /\ handlers' = handlers
               /\ handles' = handles
               /\ alive' = alive
               /\ (op[p].kind = "handle" /\ Get(op[p].event) = <<>>)
                     => /\ tasks' = tasks
                        /\ op'[p].kind = "idle"
                        /\ op[p].launched = <<>>
      ]_vars

\* C9 witness: a dispatch is in progress for an event whose handlers have
\* all been removed (the key is there, the list is empty)
C9_Witness ==
    \E p \in Dispatchers :
        /\ op[p].kind = "handle"
        /\ op[p].event \in DOMAIN handlers
        /\ handlers[op[p].event] = <<>>
        /\ removed # {}

\* C10: a panic in a handler body ends that thread alone: in the step the
\* table, the lock, the calls in progress and every other thread are as
\* before; a panicked thread holds no lock and is inside no registry call.
C10_PanicIsolated ==
    /\ [][ \A k \in 1..Len(tasks) :
             (tasks[k].st # "panicked" /\ tasks'[k].st = "panicked")
               => /\ handlers' = handlers
                  /\ readers' = readers
                  /\ op' = op
                  /\ alive' = alive
                  /\ handles' = handles
                  /\ Len(tasks') = Len(tasks)
                  /\ \A j \in 1..Len(tasks) : j # k => tasks'[j] = tasks[j]
         ]_vars
    /\ [](\A k \in 1..Len(tasks) :
            tasks[k].st = "panicked" => (k \notin readers /\ op[k].kind = "idle"))

\* C10 witness: one handler thread has panicked and a sibling launched by
\* the same dispatch has run to its end, the registry still being there
C10_Witness ==
    \E k, j \in 1..Len(tasks) :
        /\ k # j
        /\ tasks[k].first = tasks[j].first
        /\ tasks[k].st = "panicked"
        /\ tasks[j].st = "done"
        /\ alive

\* thread p is parked in write(), inside register or remove
Parked(p) == op[p].kind \in {"register", "remove"}

\* C6: a handler body that calls register, or drops a handle, always gets the
\* write lock and completes the call, whatever the dispatcher and the other
\* threads do meanwhile.
C6_HandlerCallsComplete ==
    \A k \in TaskIds : Parked(k) ~> (op[k].kind = "idle")

\* C6 witness: a handler body is parked in write() while the dispatch that
\* launched it still holds the read lock
C6_Witness ==
    \E k \in 1..Len(tasks), p \in Dispatchers :
        /\ Parked(k)
        /\ p \in readers
        /\ tasks[k].first = Len(tasks) + 1 - Len(op[p].launched)

\* C7: every dispatch returns and every register or remove of the
\* application's thread completes, although nothing makes a launched handler
\* return.
C7_DispatchNeverWaits ==
    /\ \A p \in Dispatchers : (op[p].kind = "handle") ~> (op[p].kind = "idle")
    /\ \A p \in Apps : Parked(p) ~> (op[p].kind = "idle")

\* C7 witness: the dispatcher is back from handle() while both handlers it
\* launched are still running, and a handle has been dropped since
C7_Witness ==
    /\ \A p \in Dispatchers : op[p].kind = "idle"
    /\ Len(tasks) = 2
    /\ \A k \in 1..Len(tasks) : tasks[k].st = "running"
    /\ removed # {}

----------------------------------------------------------------------------
\* Properties of the codec

\* a byte length that a 32-bit unsigned integer can hold
FitsU32(n) == n[1] = 0 /\ n[2] = 0

\* decode has returned for the buffer cin.bytes
Decoded == cin.kind = "bytes" /\ cout.res # "none"

\* the number the length field of buffer b declares, as a usize
Declared(b) == <<0, 0, b[7] + 256 * b[8], b[5] + 256 * b[6]>>

\* C11: every message whose payload length fits in 32 bits is encoded, and
\* decoding the encoded bytes gives back that very message.
C11_RoundTrip ==
    /\ (cin.kind = "msg" /\ cout.res # "none" /\ FitsU32(ByteLen(cin.msg.payload)))
          => cout.res = "Ok"
    /\ (Decoded /\ cin.sent # NoMsg) => cout = OkMsg(cin.sent)

\* C11 witness: a Pong message with a two-byte character as payload came
\* back from decode
C11_Witness ==
    /\ Decoded
    /\ cin.sent = [opcode |-> "Pong",
                   payload |-> [bytes |-> <<195, 169>>, fill |-> ZeroUSize]]
    /\ cout.res = "Ok"

\* C12: with the four opcode bytes there, an ordinal n in 0..4 is never a
\* Conversion error and a successful decode has the n-th OpCode (0 is
\* Handshake, 4 is Pong); every other ordinal gives the Conversion error.
C12_OpcodeBounds ==
    (Decoded /\ Len(cin.bytes.bytes) >= 4) =>
        LET b == cin.bytes.bytes
        IN IF b[2] = 0 /\ b[3] = 0 /\ b[4] = 0 /\ b[1] <= 4
           THEN /\ cout.err # "Conversion"
                /\ cout.res = "Ok" =>
                     /\ cout.msg.opcode = OpCodes[b[1] + 1]
                     /\ b[1] = 0 => cout.msg.opcode = "Handshake"
                     /\ b[1] = 4 => cout.msg.opcode = "Pong"
           ELSE cout = Err("Conversion")

\* C12 witness: a complete frame with ordinal 5 was refused
C12_Witness ==
    /\ Decoded
    /\ Len(cin.bytes.bytes) = 8
    /\ cin.bytes.bytes[1] = 5
    /\ cout = Err("Conversion")

\* C13 as claimed: decode fails whenever the buffer has fewer than 8 bytes,
\* or fewer bytes after the header than the length field declares, or
\* payload bytes that are not valid text.
C13_TruncationRejected ==
    Decoded =>
        LET b == cin.bytes.bytes
        IN (\/ Len(b) < 8
            \/ Declared(b)[4] > Len(b) - 8
            \/ ~Utf8Valid(SubSeq(b, 9, 8 + Declared(b)[4])))
           => cout.res = "Err"

\* C14 as claimed: building a Message whose serialized payload is longer
\* than 2^32 - 1 bytes fails.
C14_ConstructionFails ==
    (cin.kind = "value" /\ cout.res # "none" /\ cin.value.ser
     /\ ~FitsU32(ByteLen(cin.value.text)))
        => cout.res \in {"Err", "panic"}

\* C14 amended: Message::new returns the message whatever the length of the
\* serialized payload; encode panics exactly when that length does not fit
\* in 32 bits, and otherwise writes the exact length into the length field.
C14_EncodeGuardsLength ==
    /\ (cin.kind = "value" /\ cout.res # "none" /\ cin.value.ser)
          => cout = OkMsg([opcode |-> cin.opcode, payload |-> cin.value.text])
    /\ (cin.kind = "msg" /\ cout.res # "none") =>
          IF FitsU32(ByteLen(cin.msg.payload))
          THEN /\ cout.res = "Ok"
               /\ Declared(cout.out.bytes) = ByteLen(cin.msg.payload)
          ELSE cout = Panic

\* C14 witness: encode panicked on a message with a payload of 2^32 bytes
C14_Witness ==
    /\ cin.kind = "msg"
    /\ ByteLen(cin.msg.payload) = <<0, 1, 0, 0>>
    /\ cout = Panic

\* C17 as claimed: when decode succeeds the payload is as long as the length
\* field declares, and is the declared bytes: what follows them is left out.
C17_PayloadHasDeclaredLength ==
    (Decoded /\ cout.res = "Ok") =>
        /\ ByteLen(cout.msg.payload) = Declared(cin.bytes.bytes)
        /\ cin.bytes.fill = ZeroUSize =>
             cout.msg.payload.bytes
                = SubSeq(cin.bytes.bytes, 9, 8 + Declared(cin.bytes.bytes)[4])

----------------------------------------------------------------------------
\* Properties of the table and of dispatch, continued

\* the threads the dispatch of p has spawned so far
LaunchedBy(p) == (Len(tasks) - Len(op[p].launched) + 1)..Len(tasks)

\* C15: a dispatch launches exactly the list it found when it took the read
\* lock: that list is the event's list at that instant and stays the event's
\* list for the whole call, whatever register and remove calls arrive; what
\* has been launched is a prefix of it, one thread per entry, and the call
\* returns once the whole of it is launched.
C15_SnapshotLaunched ==
    /\ [](\A p \in Procs :
            op[p].kind = "handle" =>
                /\ p \in readers
                /\ Get(op[p].event) = op[p].snap
                /\ Len(op[p].launched) = op[p].i - 1
                /\ Len(op[p].launched) <= Len(op[p].snap)
                /\ op[p].launched = SubSeq(op[p].snap, 1, Len(op[p].launched))
                /\ Len(op[p].launched) <= Len(tasks)
                /\ \A j \in 1..Len(op[p].launched) :
                     tasks[Len(tasks) - Len(op[p].launched) + j].handler
                        = op[p].snap[j])
    /\ [][ \A p \in Procs :
             /\ (op[p].kind = "idle" /\ op'[p].kind = "handle")
                   => /\ op'[p].snap = Get(op'[p].event)
                      /\ op'[p].launched = <<>>
                      /\ tasks' = tasks
             /\ (op[p].kind = "handle" /\ op'[p].kind = "handle")
                   => /\ op'[p].snap = op[p].snap
                      /\ Len(tasks') - Len(tasks)
                            = Len(op'[p].launched) - Len(op[p].launched)
             /\ (op[p].kind = "handle" /\ op'[p].kind = "idle")
                   => /\ op[p].launched = op[p].snap
                      /\ tasks' = tasks
         ]_vars

\* C15 witness: a dispatch has launched both handlers of its event while a
\* removal of one of them is parked on the lock
C15_Witness ==
    \E p \in Dispatchers, q \in Procs :
        /\ op[p].kind = "handle"
        /\ Len(op[p].snap) = 2
        /\ op[p].launched = op[p].snap
        /\ op[q].kind = "remove"
        /\ op[q].target \in Range(op[p].snap)

\* C16 as claimed: no thread launched by a dispatch has begun its handler
\* body while that dispatch still holds the read lock.
C16_LockReleasedBeforeRun ==
    \A p \in readers : \A k \in LaunchedBy(p) : tasks[k].st = "spawned"

\* C18: a step changes the list of an event in one of two ways only: one
\* handler is appended at the end, or one entry is deleted and the others
\* keep their order (until the registry itself is dropped).
C18_RegistrationOrder ==
    [][ alive' =>
          \A e \in Events :
            LET s == Get(e)
                t == Get(e)'
            IN \/ t = s
               \/ /\ Len(t) = Len(s) + 1
                  /\ SubSeq(t, 1, Len(s)) = s
                  /\ \E p \in Procs : Registers(p) /\ op[p].event = e
                                      /\ t[Len(t)] = op[p].target
               \/ /\ Len(t) = Len(s) - 1
                  /\ \E i \in 1..Len(s) :
                       /\ \A j \in 1..(i - 1) : t[j] = s[j]
                       /\ \A j \in i..Len(t) : t[j] = s[j + 1]
                  /\ \E p \in Procs : op[p].kind = "remove" /\ op'[p].kind = "idle"
      ]_vars

\* C18 witness: the first of three handlers of Ready was removed and the
\* other two are left in the order they were registered in
C18_Witness ==
    /\ alive
    /\ 1 \in removed
    /\ Get("Ready") = <<2, 3>>

\* C19: a handler allocation is in the table at most once, and then in the
\* list of the event its handle records; so no removal takes more than one
\* entry out, and a handle's destructor looks in its handler's list.
C19_HandlerStoredOnce ==
    /\ [](\A e \in DOMAIN handlers : \A i \in 1..Len(handlers[e]) :
            /\ handlers[e][i] \in 1..Len(handles)
            /\ handles[handlers[e][i]].event = e
            /\ \A f \in DOMAIN handlers : \A j \in 1..Len(handlers[f]) :
                 handlers[f][j] = handlers[e][i] => (f = e /\ j = i))
    /\ [](\A p \in Procs :
            (op[p].kind = "remove" /\ op[p].origin = "drop")
                => op[p].event = handles[op[p].target].event)
    /\ [][ \A p \in Procs :
             (op[p].kind = "remove" /\ op'[p].kind = "idle") =>
                \A e \in DOMAIN handlers :
                    /\ Len(handlers'[e]) >= Len(handlers[e]) - 1
                    /\ e # op[p].event => handlers'[e] = handlers[e]
         ]_vars

\* C19 witness: three handlers are in the table, under two events
C19_Witness ==
    /\ Len(Get("Ready")) = 2
    /\ Len(Get("Error")) = 1

\* C20: while the registry lives no step takes a key out of the table: a
\* removal that takes the last handler of an event leaves the key with an
\* empty list, and the keys are the events of all registrations ever made.
C20_KeysNeverShrink ==
    /\ [][ alive' =>
             /\ DOMAIN handlers \subseteq DOMAIN handlers'
             /\ \A e \in DOMAIN handlers :
                  (Len(handlers[e]) = 1 /\ removed' # removed
                   /\ handlers[e][1] \in removed')
                     => handlers'[e] = <<>>
         ]_vars
    /\ [](alive =>
            DOMAIN handlers
               = {handles[h].event :
                    h \in {g \in 1..Len(handles) : handles[g].state # "pending"}})

\* C20 witness: the only handler of an event was removed and the event's key
\* is still in the live table, with an empty list
C20_Witness ==
    /\ alive
    /\ \E e \in DOMAIN handlers :
         /\ handlers[e] = <<>>
         /\ \E x \in removed : handles[x].event = e
         /\ \A h \in 1..Len(handles) : handles[h].event = e => h \in removed

====
